---- MODULE Spec2Model ----
(***************************************************************************)
(* Model of the crawler's discover-queue-process pipeline:                 *)
(*   db.py      the relational state (files, ids, processing_errors,       *)
(*              sites), update_site_files, update_file_ids,                *)
(*              count_id_references;                                       *)
(*   master.py  add_schema_map_to_site (the discoverer);                   *)
(*   worker.py  process_job and worker_loop;                               *)
(*   vector_db.py  the index, keyed by the hash of the object id.          *)
(* Every worker owns one database connection that it reuses from job to    *)
(* job (worker_loop.get_db_connection).  A statement executed on a cursor  *)
(* is pending on that connection until conn.commit(); the code never calls *)
(* rollback, so what a failed job left pending is committed by the next    *)
(* commit on the same connection.  Other connections read committed rows.  *)
(***************************************************************************)
EXTENDS Integers, Sequences, FiniteSets, Bags, TLC

Workers == {"w1", "w2"}
Users == {"u1"}
\* A second tenant: it has rows in the tables, and jobs only in SpecTenants.
OtherUsers == {"u2"}
AllUsers == Users \cup OtherUsers
Sites == {"s1"}
Maps == {"m1", "m2"}
Files == {"f1", "f2"}
Ids == {"a", "b"}

\* Most messages a specification lets wait in the queue.
MaxQueue == 1

FileKeys == Files \X AllUsers
IdKeys == Files \X AllUsers \X Ids

NoRow == [site |-> "none", schema_map |-> "none", is_active |-> FALSE,
          number_of_items |-> 0, read |-> FALSE]
NoMsg == [type |-> "none", user |-> "none", site |-> "none",
          file |-> "none", schema_map |-> "none"]

VARIABLES
  files,    \* files table: (file_url, user_id) -> row, NoRow when absent
  ids,      \* ids table (no primary key): (file_url, user_id, id) -> number of rows
  errs,     \* processing_errors: set of <<file_url, user_id, error_type>>
  sites,    \* sites table: (site_url, user_id) -> "none" | "new" | "processed"
            \* | "elapsed" (last_processed set, the interval over since)
  index,    \* documents of the vector index, by object id
  queue,    \* bag of visible messages
  wk,       \* per worker: position in worker_loop / process_job and its locals
  pend,     \* per worker connection: statements executed and not yet committed
  disc,     \* the last add_schema_map_to_site run: its inputs and what it computed
  last,     \* the last job a worker finished (worker_loop, after ack or nack)
  hist,     \* sticky facts about the run so far
  master,   \* per discovery thread of one process: its place in update_site_files
  site_lock, \* db._site_locks[s1]: the thread inside "with site_lock", or "free"
  qdir,     \* FileQueue: the files of queue_dir, <<kind, name>> -> content or NoFile
  snd,      \* per sender: its place in FileQueue.send_message
  rcv,      \* per receiver: its place in FileQueue.receive_message, the message held
  nsent,    \* number of send_message calls so far (the serial of the next message)
  sched,    \* api.py scheduler_loop: its place, the tasks of the tick, the ticks done
  call      \* the call of a library function in progress: its input, its place, its output

dbVars == <<files, ids, errs, sites>>
lockVars == <<master, site_lock>>
qVars == <<qdir, snd, rcv, nsent>>
vars == <<files, ids, errs, sites, index, queue, wk, pend, disc, last, hist, master,
          site_lock, qdir, snd, rcv, nsent, sched, call>>

----------------------------------------------------------------------------
(* db.py: reads *)

\* The ids of (file, user) that worker w's connection inserted and has not committed.
PendingView(w, f, u) == {x \in Ids : <<f, u, x>> \in pend[w].ins}

\* get_file_ids on worker w's connection: committed rows and w's own pending inserts.
get_file_ids(w, f, u) == {x \in Ids : ids[<<f, u, x>>] > 0} \cup PendingView(w, f, u)

\* get_file_ids on a fresh connection: committed rows only.
committed_file_ids(f, u) == {x \in Ids : ids[<<f, u, x>>] > 0}

RECURSIVE SumRows(_, _, _)
SumRows(S, u, x) ==
  IF S = {} THEN 0
  ELSE LET f == CHOOSE g \in S : TRUE
       IN ids[<<f, u, x>>] + SumRows(S \ {f}, u, x)

\* count_id_references on worker w's connection: SELECT COUNT(*) over the ids rows.
count_id_references(w, x, u) ==
  SumRows(Files, u, x) + Cardinality({f \in Files : <<f, u, x>> \in pend[w].ins})

\* The reference count a fresh connection reads.
ref_count(x, u) == SumRows(Files, u, x)

\* get_site_files: the active files of (site, user).
get_site_files(s, u) ==
  {f \in Files : files[<<f, u>>] # NoRow /\ files[<<f, u>>].site = s
                  /\ files[<<f, u>>].is_active}

----------------------------------------------------------------------------
(* The IN (...) list that update_site_files and update_file_ids build:      *)
(* ','.join('%s' * n).  '%s' * n is one string of 2n characters, and join   *)
(* of a string puts the separator between its characters.                   *)

RECURSIVE Repeat(_, _)
Repeat(s, n) == IF n = 0 THEN <<>> ELSE s \o Repeat(s, n - 1)

RECURSIVE Join(_, _)
\* sep.join(parts) for a sequence of strings (each a sequence of characters).
Join(sep, parts) ==
  IF Len(parts) = 0 THEN <<>>
  ELSE IF Len(parts) = 1 THEN parts[1]
  ELSE parts[1] \o sep \o Join(sep, Tail(parts))

\* Iterating a string yields its characters, each a string of length one.
Chars(s) == [i \in 1..Len(s) |-> <<s[i]>>]

Marker == <<"%", "s">>
Comma == <<",">>

\* An IN list of one marker per parameter: ','.join(['%s'] * n).
in_list_PerParameter(n) == Join(Comma, [i \in 1..n |-> Marker])

\* db.py: ','.join('%s' * len(removed))
in_list(n) == Join(Comma, Chars(Repeat(Marker, n)))

\* What the driver and the server need for n parameters: %s,%s,...,%s
WellFormedList(n) == Join(Comma, [i \in 1..n |-> Marker])

\* cursor.execute of a statement with this IN list and n parameters raises
\* unless the list is n markers separated by commas.
execute_raises(n) == in_list(n) # WellFormedList(n)

----------------------------------------------------------------------------
(* Connections *)

NoPend == [ins |-> {}, del |-> {}, items |-> <<>>]

\* conn.commit() on w's connection, ids table: pending deletes, then pending inserts.
CommitIds(w) ==
  [k \in IdKeys |->
     (IF k \in pend[w].del THEN 0 ELSE ids[k]) + (IF k \in pend[w].ins THEN 1 ELSE 0)]

\* conn.commit() on w's connection, files table: the pending UPDATE of
\* last_read_time and number_of_items, which matches a row or none.
CommitFiles(w) ==
  IF pend[w].items = <<>> THEN files
  ELSE LET k == pend[w].items[1]
       IN IF files[k] = NoRow THEN files
          ELSE [files EXCEPT ![k].number_of_items = pend[w].items[2], ![k].read = TRUE]

----------------------------------------------------------------------------
(* State after construction *)

IdleWk == [pc |-> "idle", msg |-> NoMsg, ids |-> {}, added |-> {}, removed |-> {},
           todo |-> {}, toAdd |-> {}, toDel |-> {}, result |-> FALSE,
           addCalls |-> 0, delCalls |-> 0, raised |-> FALSE, fetched |-> FALSE,
           fetchFailed |-> FALSE, addFailed |-> FALSE]

NoJob == [type |-> "none", user |-> "none", file |-> "none", ids |-> {},
          result |-> FALSE, fetched |-> FALSE]

NoDisc == [user |-> "none", site |-> "none", schema_map |-> "none", listed |-> {},
           status |-> 0, before |-> {}, added |-> {}, removed |-> {},
           raised |-> FALSE, fresh |-> FALSE, repeat |-> FALSE, relisted |-> {},
           changed |-> FALSE, failed |-> {}, result |-> <<0, 0>>]

\* queue_provider/file_queue.py: the queue directory and the processes using it.
\* A job file is named after the wall clock at send time; the names are listed
\* here in the order sorted() gives them.
NameSeq == <<"j1", "j2">>
Names == {NameSeq[i] : i \in 1..Len(NameSeq)}
Bodies == {"p", "q"}
Kinds == {"tmp", "job", "processing"}
Senders == {"p1", "p2"}
Receivers == {"r1", "r2"}
MaxSends == 3
NoFile == [uid |-> 0, body |-> "none"]
NoQueueMessage == [id |-> "none", content |-> NoFile, receipt_handle |-> "none"]
IdleSender == [pc |-> "idle", name |-> "none", content |-> NoFile]
IdleReceiver == [pc |-> "idle", listing |-> <<>>, name |-> "none",
                 msg |-> NoQueueMessage, op |-> "none"]

\* No library call is in progress.
NoCall == [fn |-> "none"]

\* The sites of the sites table that the scheduler's query may return, and the
\* number of iterations of scheduler_loop that are followed.
SchedulerSites == {"sa", "sb", "sc"}
MaxTicks == 2

\* start_scheduler has submitted scheduler_loop, which is about to run its query.
\* orphans: the sites whose process_site still runs in a pool thread although
\* the loop that started it was cancelled; outcome: what the last call of
\* start_scheduler or stop_scheduler did.
IdleSched == [pc |-> "query", task |-> [s \in SchedulerSites |-> "none"],
              ticks |-> 0, failed |-> FALSE, orphans |-> {}, outcome |-> "started"]

\* FileQueue.provision on a new directory, nobody sending or receiving.
QueueDirEmpty ==
  /\ qdir = [k \in Kinds \X Names |-> NoFile]
  /\ snd = [p \in Senders |-> IdleSender]
  /\ rcv = [r \in Receivers |-> IdleReceiver]
  /\ nsent = 0

\* The threads of one process that run add_schema_map_to_site (the scheduler's
\* process_site_async threads and the request handlers of api.py).
Masters == {"d1", "d2"}

\* A discovery thread that has not called update_site_files.
IdleMaster == [pc |-> "idle", listed |-> {}, existing |-> {}, added |-> {},
               removed |-> {}, raised |-> FALSE, rank |-> 0]

NoHist == [count |-> FALSE, track |-> FALSE, adds |-> [x \in Ids |-> 0],
           idxFailed |-> FALSE, omitted |-> {}]

\* create_tables, and nothing else yet: empty tables, empty index, empty queue.
InitEmpty ==
  /\ files = [k \in FileKeys |-> NoRow]
  /\ ids = [k \in IdKeys |-> 0]
  /\ errs = {}
  /\ sites = [k \in Sites \X AllUsers |-> "none"]
  /\ index = {}
  /\ queue = EmptyBag
  /\ wk = [w \in Workers |-> IdleWk]
  /\ pend = [w \in Workers |-> NoPend]
  /\ disc = NoDisc
  /\ master = [d \in Masters |-> IdleMaster]
  /\ site_lock = "free"
  /\ QueueDirEmpty
  /\ sched = IdleSched
  /\ call = NoCall
  /\ last = NoJob
  /\ hist = NoHist

\* A File row as update_site_files inserts it (db.py, the MERGE's INSERT).
NewRow(s, m) == [site |-> s, schema_map |-> m, is_active |-> TRUE,
                 number_of_items |-> 0, read |-> FALSE]

\* The files of a first discovery of map m1 of site s1 for user u1 are registered.
InitRegistered ==
  /\ files = [k \in FileKeys |-> IF k[2] = "u1" THEN NewRow("s1", "m1") ELSE NoRow]
  /\ ids = [k \in IdKeys |-> 0]
  /\ errs = {}
  /\ sites = [k \in Sites \X AllUsers |-> IF k[2] = "u1" THEN "new" ELSE "none"]
  /\ index = {}
  /\ queue = EmptyBag
  /\ wk = [w \in Workers |-> IdleWk]
  /\ pend = [w \in Workers |-> NoPend]
  /\ disc = NoDisc
  /\ master = [d \in Masters |-> IdleMaster]
  /\ site_lock = "free"
  /\ QueueDirEmpty
  /\ sched = IdleSched
  /\ call = NoCall
  /\ last = NoJob
  /\ hist = NoHist

Job(t, u, f) == [type |-> t, user |-> u, site |-> "s1", file |-> f,
                 schema_map |-> IF t = "process_file" THEN "m1" ELSE "none"]

QueueSize == BagCardinality(queue)
AllIdle == \A w \in Workers : wk[w].pc = "idle"
OthersIdle(w) == \A v \in Workers \ {w} : wk[v].pc = "idle"
Quiescent == AllIdle /\ queue = EmptyBag

----------------------------------------------------------------------------
(* worker.py: worker_loop and process_job, one action per step *)

\* process_job's first lines: a job without user_id returns False; a type that
\* is neither process_file nor process_removed_file falls through both branches
\* and returns None, which worker_loop takes for a failure as well.
entry(m) ==
  IF m.user = "none" THEN "finish"
  ELSE IF m.type = "process_file" THEN "check"
  ELSE IF m.type = "process_removed_file" THEN "rm_read"
  ELSE "finish"

\* A message whose body is valid JSON and not an object (a list, a string, a
\* number): message.content is then not a dict.
NotADict == [NoMsg EXCEPT !.type = "not_a_dict"]
IsDict(m) == m # NotADict

\* worker_loop: queue.receive_message hands a visible message to worker w, which
\* enters process_job.  A job starting ends a succession of discovery runs.
Receive(w) ==
  /\ wk[w].pc = "idle"
  /\ \E m \in {x \in BagToSet(queue) : IsDict(x)} :
       /\ queue' = queue (-) SetToBag({m})
       /\ wk' = [wk EXCEPT ![w] = [IdleWk EXCEPT
                   !.msg = m,
                   !.pc = entry(m)]]
  /\ disc' = [disc EXCEPT !.fresh = FALSE]
  /\ UNCHANGED <<dbVars, index, pend, last, hist, lockVars, qVars, sched, call>>

\* process_file: SELECT file_url FROM files ...; no row: return True.
CheckFile(w) ==
  /\ wk[w].pc = "check"
  /\ LET k == <<wk[w].msg.file, wk[w].msg.user>>
     IN wk' = [wk EXCEPT ![w].pc = IF files[k] = NoRow THEN "finish" ELSE "extract",
                         ![w].result = (files[k] = NoRow)]
  /\ UNCHANGED <<dbVars, index, queue, pend, disc, lockVars, qVars, sched, call, last, hist>>

\* process_file: extract_schema_data_from_url returns the ids of the payload (the
\* payload is the environment's choice); with no ids, log_processing_error
\* writes a no_ids_found row and commits.
Extract(w) ==
  /\ wk[w].pc = "extract"
  /\ \E S \in SUBSET Ids :
       /\ wk' = [wk EXCEPT ![w].pc = "update", ![w].ids = S, ![w].fetched = TRUE]
       /\ IF S = {}
          THEN /\ errs' = errs \cup {<<wk[w].msg.file, wk[w].msg.user, "no_ids_found">>}
               /\ ids' = CommitIds(w)
               /\ files' = CommitFiles(w)
               /\ pend' = [pend EXCEPT ![w] = NoPend]
          ELSE UNCHANGED <<errs, ids, files, pend>>
  /\ UNCHANGED <<sites, index, queue, disc, lockVars, qVars, sched, call, last, hist>>

\* process_file: the fetch or the parse of the payload fails (network error,
\* non-2xx status, bad JSON).  extract_schema_data_from_url catches the exception
\* and returns ([], []), which process_job takes for a payload without ids.
ExtractFails(w) ==
  /\ wk[w].pc = "extract"
  /\ wk' = [wk EXCEPT ![w].pc = "update", ![w].ids = {}, ![w].fetchFailed = TRUE]
  /\ errs' = errs \cup {<<wk[w].msg.file, wk[w].msg.user, "no_ids_found">>}
  /\ ids' = CommitIds(w)
  /\ files' = CommitFiles(w)
  /\ pend' = [pend EXCEPT ![w] = NoPend]
  /\ UNCHANGED <<sites, index, queue, disc, lockVars, qVars, sched, call, last, hist>>

\* The current_ids argument of the job's update_file_ids call.
current_ids(w) == IF wk[w].msg.type = "process_file" THEN wk[w].ids ELSE {}

\* update_file_ids up to its commit: the diff against get_file_ids, the INSERTs,
\* the DELETE (wildcard when current_ids is empty, else with an IN list) and the
\* UPDATE of the File row.  A statement that raises leaves what was executed
\* before it pending and process_job returns False (its except clause).
update_file_ids_execute(w) ==
  /\ wk[w].pc = "update"
  /\ LET f == wk[w].msg.file
         u == wk[w].msg.user
         existing_ids == get_file_ids(w, f, u)
         added == current_ids(w) \ existing_ids
         removed == existing_ids \ current_ids(w)
         inserted == pend[w].ins \cup {<<f, u, x>> : x \in added}
         wildcard == removed # {} /\ current_ids(w) = {}
         raises == removed # {} /\ current_ids(w) # {}
                     /\ execute_raises(Cardinality(removed))
     IN IF raises
        THEN /\ pend' = [pend EXCEPT ![w].ins = inserted]
             /\ wk' = [wk EXCEPT ![w].pc = "finish", ![w].result = FALSE,
                                 ![w].raised = TRUE,
                                 ![w].added = added, ![w].removed = removed]
        ELSE /\ pend' = [pend EXCEPT
                    ![w].ins = IF wildcard
                               THEN {k \in inserted : ~(k[1] = f /\ k[2] = u)}
                               ELSE inserted,
                    ![w].del = {<<f, u, x>> : x \in removed},
                    ![w].items = <<(<<f, u>>), Cardinality(current_ids(w))>>]
             /\ wk' = [wk EXCEPT ![w].pc = "commit",
                                 ![w].added = added, ![w].removed = removed]
  /\ UNCHANGED <<dbVars, index, queue, disc, lockVars, qVars, sched, call, last, hist>>

\* The pc after update_file_ids returned: the loops over added and removed ids
\* (process_file) or over ids_before (process_removed_file).
AfterAdds(w, toAdd, todoDel) ==
  IF toAdd # {} THEN "index_add"
  ELSE IF todoDel # {} THEN "count_del"
  ELSE "post"

\* An update_file_ids that returns (added, removed) and leaves the commit to a
\* later statement of the job.
update_file_ids_commit_Late(w) ==
  /\ wk[w].pc = "commit"
  /\ wk' = [wk EXCEPT
       ![w].pc = IF wk[w].msg.type = "process_file"
                 THEN IF wk[w].added # {} THEN "count_add"
                      ELSE AfterAdds(w, {}, wk[w].removed)
                 ELSE IF wk[w].ids # {} THEN "count_del" ELSE "rm_file",
       ![w].todo = IF wk[w].msg.type = "process_file"
                   THEN IF wk[w].added # {} THEN wk[w].added ELSE wk[w].removed
                   ELSE wk[w].ids]
  /\ UNCHANGED <<dbVars, index, queue, pend, disc, lockVars, qVars, sched, call, last, hist>>

\* update_file_ids: conn.commit() and return (added, removed).
update_file_ids_commit(w) ==
  /\ wk[w].pc = "commit"
  /\ ids' = CommitIds(w)
  /\ files' = CommitFiles(w)
  /\ pend' = [pend EXCEPT ![w] = NoPend]
  /\ wk' = [wk EXCEPT
       ![w].pc = IF wk[w].msg.type = "process_file"
                 THEN IF wk[w].added # {} THEN "count_add"
                      ELSE AfterAdds(w, {}, wk[w].removed)
                 ELSE IF wk[w].ids # {} THEN "count_del" ELSE "rm_file",
       ![w].todo = IF wk[w].msg.type = "process_file"
                   THEN IF wk[w].added # {} THEN wk[w].added ELSE wk[w].removed
                   ELSE wk[w].ids]
  /\ UNCHANGED <<errs, sites, index, queue, disc, lockVars, qVars, sched, call, last, hist>>

\* process_file: for id in added_ids: ref_count == 1 stages the id for the batch add.
CountAdd(w) ==
  /\ wk[w].pc = "count_add"
  /\ \E x \in wk[w].todo :
       LET toAdd == IF count_id_references(w, x, wk[w].msg.user) = 1
                    THEN wk[w].toAdd \cup {x} ELSE wk[w].toAdd
           rest == wk[w].todo \ {x}
       IN wk' = [wk EXCEPT
            ![w].toAdd = toAdd,
            ![w].todo = IF rest = {} THEN wk[w].removed ELSE rest,
            ![w].pc = IF rest = {} THEN AfterAdds(w, toAdd, wk[w].removed)
                      ELSE "count_add"]
  /\ UNCHANGED <<dbVars, index, queue, pend, disc, lockVars, qVars, sched, call, last, hist>>

\* One more Indexer add call for each id of the batch, when the run counts them.
CountedAdds(S) ==
  IF hist.count THEN [x \in Ids |-> hist.adds[x] + (IF x \in S THEN 1 ELSE 0)]
  ELSE hist.adds

\* process_file: vector_db_batch_add(items_to_add), the backend accepting the batch.
IndexAdd(w) ==
  /\ wk[w].pc = "index_add"
  /\ index' = index \cup wk[w].toAdd
  /\ hist' = [hist EXCEPT !.adds = CountedAdds(wk[w].toAdd)]
  /\ wk' = [wk EXCEPT ![w].addCalls = 1,
                      ![w].pc = IF wk[w].removed # {} THEN "count_del" ELSE "post"]
  /\ UNCHANGED <<dbVars, queue, pend, disc, lockVars, qVars, sched, call, last>>

\* A handler that gives the job up when the Indexer add fails.
IndexAddFails_ReturnsFalse(w) ==
  /\ wk[w].pc = "index_add"
  /\ hist' = [hist EXCEPT !.adds = CountedAdds(wk[w].toAdd), !.idxFailed = TRUE]
  /\ wk' = [wk EXCEPT ![w].addCalls = 1, ![w].addFailed = TRUE,
                      ![w].pc = "finish", ![w].result = FALSE]
  /\ UNCHANGED <<dbVars, index, queue, pend, disc, lockVars, qVars, sched, call, last>>

\* The same call when the backend raises: batch_add prints the error and returns.
IndexAddFails(w) ==
  /\ wk[w].pc = "index_add"
  /\ hist' = [hist EXCEPT !.adds = CountedAdds(wk[w].toAdd), !.idxFailed = TRUE]
  /\ wk' = [wk EXCEPT ![w].addCalls = 1, ![w].addFailed = TRUE,
                      ![w].pc = IF wk[w].removed # {} THEN "count_del" ELSE "post"]
  /\ UNCHANGED <<dbVars, index, queue, pend, disc, lockVars, qVars, sched, call, last>>

\* The same call when vector_db_batch_add itself raises (the VectorDB object
\* cannot be built: _get_vector_db is outside batch_add's try).  process_job's
\* except clause logs a vector_db_add_failed row, which commits, and goes on.
IndexAddRaises(w) ==
  /\ wk[w].pc = "index_add"
  /\ hist' = [hist EXCEPT !.adds = CountedAdds(wk[w].toAdd), !.idxFailed = TRUE]
  /\ errs' = errs \cup {<<wk[w].msg.file, wk[w].msg.user, "vector_db_add_failed">>}
  /\ ids' = CommitIds(w)
  /\ files' = CommitFiles(w)
  /\ pend' = [pend EXCEPT ![w] = NoPend]
  /\ wk' = [wk EXCEPT ![w].addCalls = 1, ![w].addFailed = TRUE,
                      ![w].pc = IF wk[w].removed # {} THEN "count_del" ELSE "post"]
  /\ UNCHANGED <<sites, index, queue, disc, lockVars, qVars, sched, call, last>>

\* The pc after the loop that collects the ids to delete from the index.
AfterDels(w, toDel) ==
  IF toDel # {} THEN "index_del"
  ELSE IF wk[w].msg.type = "process_file" THEN "post" ELSE "rm_file"

\* A delete loop that stages every id it visits, whatever its reference count.
CountDel_Unconditional(w) ==
  /\ wk[w].pc = "count_del"
  /\ \E x \in wk[w].todo :
       LET toDel == wk[w].toDel \cup {x}
           rest == wk[w].todo \ {x}
       IN wk' = [wk EXCEPT
            ![w].toDel = toDel,
            ![w].todo = rest,
            ![w].pc = IF rest = {} THEN AfterDels(w, toDel) ELSE "count_del"]
  /\ UNCHANGED <<dbVars, index, queue, pend, disc, lockVars, qVars, sched, call, last, hist>>

\* process_file: for id in removed_ids (process_removed_file: for id in ids):
\* ref_count == 0 stages the id for the batch delete.
CountDel(w) ==
  /\ wk[w].pc = "count_del"
  /\ \E x \in wk[w].todo :
       LET toDel == IF count_id_references(w, x, wk[w].msg.user) = 0
                    THEN wk[w].toDel \cup {x} ELSE wk[w].toDel
           rest == wk[w].todo \ {x}
       IN wk' = [wk EXCEPT
            ![w].toDel = toDel,
            ![w].todo = rest,
            ![w].pc = IF rest = {} THEN AfterDels(w, toDel) ELSE "count_del"]
  /\ UNCHANGED <<dbVars, index, queue, pend, disc, lockVars, qVars, sched, call, last, hist>>

\* vector_db_batch_delete(ids_to_delete), the backend accepting the batch.
IndexDel(w) ==
  /\ wk[w].pc = "index_del"
  /\ index' = index \ wk[w].toDel
  /\ wk' = [wk EXCEPT ![w].delCalls = 1,
                      ![w].pc = IF wk[w].msg.type = "process_file" THEN "post"
                                ELSE "rm_file"]
  /\ UNCHANGED <<dbVars, queue, pend, disc, lockVars, qVars, sched, call, last, hist>>

\* The same call when the backend raises: batch_delete prints the error and returns.
IndexDelFails(w) ==
  /\ wk[w].pc = "index_del"
  /\ hist' = [hist EXCEPT !.idxFailed = TRUE]
  /\ wk' = [wk EXCEPT ![w].delCalls = 1,
                      ![w].pc = IF wk[w].msg.type = "process_file" THEN "post"
                                ELSE "rm_file"]
  /\ UNCHANGED <<dbVars, index, queue, pend, disc, lockVars, qVars, sched, call, last>>

\* process_file: update_site_last_processed(job['site']), then clear_file_errors
\* (DELETE FROM processing_errors ...; commit) and return True.
Post(w) ==
  /\ wk[w].pc = "post"
  /\ sites' = [k \in Sites \X AllUsers |->
                 IF k[1] = wk[w].msg.site /\ sites[k] # "none" THEN "processed"
                 ELSE sites[k]]
  /\ errs' = {e \in errs : ~(e[1] = wk[w].msg.file /\ e[2] = wk[w].msg.user)}
  /\ ids' = CommitIds(w)
  /\ files' = CommitFiles(w)
  /\ pend' = [pend EXCEPT ![w] = NoPend]
  /\ wk' = [wk EXCEPT ![w].pc = "finish", ![w].result = TRUE]
  /\ UNCHANGED <<index, queue, disc, lockVars, qVars, sched, call, last, hist>>

\* process_removed_file: ids = db.get_file_ids(conn, file_url, user_id).
RemovedRead(w) ==
  /\ wk[w].pc = "rm_read"
  /\ wk' = [wk EXCEPT ![w].pc = "update",
                      ![w].ids = get_file_ids(w, wk[w].msg.file, wk[w].msg.user)]
  /\ UNCHANGED <<dbVars, index, queue, pend, disc, lockVars, qVars, sched, call, last, hist>>

\* process_removed_file: DELETE FROM files ...; conn.commit(); return True.
RemovedDeleteFile(w) ==
  /\ wk[w].pc = "rm_file"
  /\ ids' = CommitIds(w)
  /\ files' = [CommitFiles(w) EXCEPT ![<<wk[w].msg.file, wk[w].msg.user>>] = NoRow]
  /\ pend' = [pend EXCEPT ![w] = NoPend]
  /\ wk' = [wk EXCEPT ![w].pc = "finish", ![w].result = TRUE]
  /\ UNCHANGED <<errs, sites, index, queue, disc, lockVars, qVars, sched, call, last, hist>>

\* worker_loop after process_job: delete_message on success, return_message
\* (the message is visible again) on failure.
Finish(w) ==
  /\ wk[w].pc = "finish"
  /\ queue' = IF wk[w].result THEN queue ELSE queue (+) SetToBag({wk[w].msg})
  /\ last' = IF hist.track
             THEN [type |-> wk[w].msg.type, user |-> wk[w].msg.user,
                   file |-> wk[w].msg.file, ids |-> wk[w].ids,
                   result |-> wk[w].result, fetched |-> wk[w].fetched]
             ELSE last
  /\ wk' = [wk EXCEPT ![w] = IdleWk]
  /\ UNCHANGED <<dbVars, index, pend, disc, lockVars, qVars, sched, call, hist>>

\* worker_loop: receive_message returns a message whose content is not a dict;
\* the worker is at the logger.info line that calls job.get.
ReceiveNotADict(w) ==
  /\ wk[w].pc = "idle"
  /\ NotADict \in BagToSet(queue)
  /\ queue' = queue (-) SetToBag({NotADict})
  /\ wk' = [wk EXCEPT ![w] = [IdleWk EXCEPT !.msg = NotADict, !.pc = "log"]]
  /\ disc' = [disc EXCEPT !.fresh = FALSE]
  /\ UNCHANGED <<dbVars, index, pend, last, hist, lockVars, qVars, sched, call>>

\* worker_loop: job.get raises AttributeError, which the except clause of the
\* loop body catches: log, sleep 5, next iteration.  Neither delete_message nor
\* return_message is on that path.
LogJobRaises(w) ==
  /\ wk[w].pc = "log"
  /\ wk' = [wk EXCEPT ![w] = IdleWk]
  /\ UNCHANGED <<dbVars, index, queue, pend, disc, last, hist, lockVars, qVars, sched, call>>

\* process_job on a process_file message whose payload adds ids or changes
\* nothing, and worker_loop's ack or nack.
AddSteps(w) ==
  \/ CheckFile(w)
  \/ Extract(w)
  \/ update_file_ids_execute(w)
  \/ update_file_ids_commit(w)
  \/ CountAdd(w)
  \/ IndexAdd(w)
  \/ Post(w)
  \/ Finish(w)

\* The loop over the ids that left a file and the batch delete.
DeleteSteps(w) == CountDel(w) \/ IndexDel(w)

\* The steps that only process_removed_file takes.
RemovedSteps(w) == RemovedRead(w) \/ RemovedDeleteFile(w)

\* One step of worker w.
WorkerStep(w) == Receive(w) \/ AddSteps(w) \/ DeleteSteps(w) \/ RemovedSteps(w)

\* The worker process dies in the middle of a job: its connection is lost (what
\* was pending is rolled back by the server) and, the message being neither
\* deleted nor returned, the queue makes it visible again after the visibility
\* timeout.
Crash(w) ==
  /\ wk[w].pc \notin {"idle", "finish"}
  /\ queue' = queue (+) SetToBag({wk[w].msg})
  /\ wk' = [wk EXCEPT ![w] = IdleWk]
  /\ pend' = [pend EXCEPT ![w] = NoPend]
  /\ UNCHANGED <<dbVars, index, disc, lockVars, qVars, sched, call, last, hist>>

----------------------------------------------------------------------------
(* master.py: add_schema_map_to_site, with db.update_site_files *)

\* update_site_files, the MERGE of an added file: an existing row is reactivated
\* and gets the site and the schema map, a missing one is inserted.
merge_file(row, s, m) ==
  IF row = NoRow THEN NewRow(s, m)
  ELSE [row EXCEPT !.is_active = TRUE, !.site = s, !.schema_map = m]

\* update_site_files, the rows after its commit.
update_site_files_rows(s, u, m, added, removed) ==
  [k \in FileKeys |->
     IF k[2] = u /\ k[1] \in added THEN merge_file(files[k], s, m)
     ELSE IF k[2] = u /\ k[1] \in removed /\ files[k].site = s
          THEN [files[k] EXCEPT !.is_active = FALSE]
     ELSE files[k]]

\* The messages add_schema_map_to_site sends for the diff.
discovery_jobs(s, u, m, added, removed) ==
  SetToBag({[type |-> "process_file", user |-> u, site |-> s, file |-> f,
             schema_map |-> m] : f \in added})
  (+) SetToBag({[type |-> "process_removed_file", user |-> u, site |-> s, file |-> f,
                 schema_map |-> "none"] : f \in removed})

\* A discoverer that takes the body of any response for the map.
reaches_update_site_files_AnyStatus(status, listed) == TRUE

\* add_schema_map_to_site: a status other than 200 returns (0, 0), and so does a
\* map in which parse_schema_map_xml finds no file; otherwise update_site_files
\* is called.
reaches_update_site_files(status, listed) == status = 200 /\ listed # {}

\* One run of add_schema_map_to_site(site, user, schema_map_url): the Site row is
\* ensured; the map is fetched (status) and parsed (listed: the files of its
\* schema.org entries); a non-200 status or an empty list returns (0, 0); else
\* update_site_files diffs the list against the active files, and the jobs are
\* sent.  An exception (the UPDATE with the IN list) is caught by the function's
\* except clause: it returns (0, 0) and conn.close() drops what was not committed.
add_schema_map_to_site(s, u, m, status, listed, failed) ==
  LET existing == get_site_files(s, u)
      called == reaches_update_site_files(status, listed)
      added == IF called THEN listed \ existing ELSE {}
      removed == IF called THEN existing \ listed ELSE {}
      raises == removed # {} /\ execute_raises(Cardinality(removed))
      done == called /\ ~raises
      rows == IF done THEN update_site_files_rows(s, u, m, added, removed) ELSE files
      sent == IF done THEN discovery_jobs(s, u, m, added \ failed, removed) ELSE EmptyBag
  IN /\ AllIdle
     /\ QueueSize + BagCardinality(sent) <= MaxQueue
     /\ sites' = [sites EXCEPT ![<<s, u>>] = IF @ = "none" THEN "new" ELSE @]
     /\ files' = rows
     /\ queue' = queue (+) sent
     /\ disc' = [user |-> u, site |-> s, schema_map |-> m, listed |-> listed,
                 status |-> status, before |-> existing,
                 added |-> added, removed |-> removed, raised |-> called /\ raises,
                 fresh |-> TRUE,
                 repeat |-> disc.fresh /\ disc.user = u /\ disc.site = s
                             /\ disc.schema_map = m /\ disc.status = status
                             /\ disc.listed = listed,
                 relisted |-> listed \cap hist.omitted,
                 changed |-> rows # files \/ sent # EmptyBag,
                 failed |-> IF done THEN added \cap failed ELSE {},
                 result |-> IF done THEN <<Cardinality(added), Cardinality(added \ failed)>>
                            ELSE <<0, 0>>]
     /\ hist' = [hist EXCEPT !.omitted = IF status = 200 THEN existing \ listed
                                         ELSE {}]
     /\ UNCHANGED <<ids, errs, index, wk, pend, last, lockVars, qVars, sched, call>>

Discover ==
  \E u \in Users, s \in Sites, m \in Maps, status \in {200, 404}, listed \in SUBSET Files :
     /\ status = 404 => listed = {}
     /\ add_schema_map_to_site(s, u, m, status, listed, {})

\* A run in which queue.send_message returns False, or raises, for some of the
\* added files (FileQueue.send_message: open or os.rename fails); the loop logs
\* it and goes on, queued_count counts the sends that returned True.
DiscoverSendFails ==
  \E u \in Users, s \in Sites, m \in Maps, listed \in SUBSET Files :
     \E failed \in SUBSET (listed \ get_site_files(s, u)) :
        /\ failed # {}
        /\ add_schema_map_to_site(s, u, m, 200, listed, failed)

----------------------------------------------------------------------------
(* master.py and db.py: add_schema_map_to_site run by several threads of one   *)
(* process for site s1, user u1 and map m1, step by step.  Every run has its   *)
(* own connection; update_site_files holds the site's semaphore from before    *)
(* get_site_files until after conn.commit() or until an exception leaves the   *)
(* with block.                                                                 *)

\* The ranks already given: the n-th thread to enter update_site_files has rank n.
Ranks == {master[d].rank : d \in Masters}

\* The map is fetched and parsed; a map without files returns (0, 0) at once.
MasterFetch(d) ==
  /\ master[d].pc = "idle"
  /\ \E listed \in SUBSET Files :
       master' = [master EXCEPT ![d].listed = listed,
                                ![d].pc = IF listed = {} THEN "done" ELSE "fetched"]
  /\ sites' = [sites EXCEPT ![<<"s1", "u1">>] = IF @ = "none" THEN "new" ELSE @]
  /\ UNCHANGED <<files, ids, errs, index, queue, wk, pend, disc, last, hist, site_lock, qVars, sched, call>>

\* update_site_files: with site_lock: existing_files = get_site_files(...), the diff.
MasterAcquire(d) ==
  /\ master[d].pc = "fetched"
  /\ site_lock = "free"
  /\ site_lock' = d
  /\ LET existing == get_site_files("s1", "u1")
     IN master' = [master EXCEPT ![d].pc = "locked",
                                 ![d].existing = existing,
                                 ![d].added = master[d].listed \ existing,
                                 ![d].removed = existing \ master[d].listed,
                                 ![d].rank = Cardinality(Ranks \ {0}) + 1]
  /\ UNCHANGED <<dbVars, index, queue, wk, pend, disc, last, hist, qVars, sched, call>>

\* update_site_files: the MERGE of each added file and the UPDATE of the removed
\* ones.  When the UPDATE raises, the exception leaves the with block (the
\* semaphore is released), add_schema_map_to_site returns (0, 0) and closes its
\* connection.
MasterExecute(d) ==
  /\ master[d].pc = "locked"
  /\ IF master[d].removed # {} /\ execute_raises(Cardinality(master[d].removed))
     THEN /\ master' = [master EXCEPT ![d].pc = "done", ![d].raised = TRUE]
          /\ site_lock' = "free"
     ELSE /\ master' = [master EXCEPT ![d].pc = "commit"]
          /\ UNCHANGED site_lock
  /\ UNCHANGED <<dbVars, index, queue, wk, pend, disc, last, hist, qVars, sched, call>>

\* update_site_files: conn.commit(), return (added, removed); the with block ends.
MasterCommit(d) ==
  /\ master[d].pc = "commit"
  /\ files' = update_site_files_rows("s1", "u1", "m1", master[d].added, master[d].removed)
  /\ site_lock' = "free"
  /\ master' = [master EXCEPT ![d].pc = "send"]
  /\ UNCHANGED <<ids, errs, sites, index, queue, wk, pend, disc, last, hist, qVars, sched, call>>

\* add_schema_map_to_site: the jobs for the added and the removed files are sent.
MasterSend(d) ==
  /\ master[d].pc = "send"
  /\ queue' = queue (+) discovery_jobs("s1", "u1", "m1", master[d].added, master[d].removed)
  /\ master' = [master EXCEPT ![d].pc = "done"]
  /\ UNCHANGED <<dbVars, index, wk, pend, disc, last, hist, site_lock, qVars, sched, call>>

MasterStep(d) ==
  \/ MasterFetch(d)
  \/ MasterAcquire(d)
  \/ MasterExecute(d)
  \/ MasterCommit(d)
  \/ MasterSend(d)

----------------------------------------------------------------------------
(* Environment: the jobs a specification feeds the workers *)

\* A message for file f of user u1 becomes visible while no job runs:
\* process_file is sent by a discovery that added the file (master.py),
\* process_removed_file by api.py, _delete_schema_map_internal.
Enqueue(t, f) ==
  /\ AllIdle
  /\ QueueSize < MaxQueue
  /\ queue' = queue (+) SetToBag({Job(t, "u1", f)})
  /\ UNCHANGED <<dbVars, index, wk, pend, disc, lockVars, qVars, sched, call, last, hist>>

\* A message that process_job cannot handle: its type is not a job type, or it
\* carries no user_id (user "none").
Malformed(m) == m.user = "none" \/ m.type \notin {"process_file", "process_removed_file"}

\* Some producer sends a malformed message.
EnqueueMalformed ==
  \E t \in {"process_file", "process_removed_file", "unknown"}, u \in {"u1", "none"} :
     /\ Malformed(Job(t, u, "f1"))
     /\ AllIdle
     /\ QueueSize < MaxQueue
     /\ queue' = queue (+) SetToBag({Job(t, u, "f1")})
     /\ UNCHANGED <<dbVars, index, wk, pend, disc, lockVars, qVars, sched, call, last, hist>>

\* Some producer sends a body that is not a JSON object.
EnqueueNotADict ==
  /\ AllIdle
  /\ QueueSize < MaxQueue
  /\ queue' = queue (+) SetToBag({NotADict})
  /\ UNCHANGED <<dbVars, index, wk, pend, disc, lockVars, qVars, sched, call, last, hist>>

\* db.remove_site(conn, site_url, user_id), called between jobs on a connection
\* of its own: DELETE FROM ids for the files of the site, DELETE FROM files of
\* the site, DELETE FROM sites, commit.
remove_site(s, u) ==
  /\ AllIdle
  /\ \E k \in FileKeys : k[2] = u /\ files[k] # NoRow /\ files[k].site = s
  /\ ids' = [k \in IdKeys |->
               IF k[2] = u /\ files[<<k[1], u>>] # NoRow /\ files[<<k[1], u>>].site = s
               THEN 0 ELSE ids[k]]
  /\ files' = [k \in FileKeys |->
                 IF k[2] = u /\ files[k] # NoRow /\ files[k].site = s THEN NoRow
                 ELSE files[k]]
  /\ sites' = [sites EXCEPT ![<<s, u>>] = "none"]
  /\ UNCHANGED <<errs, index, queue, wk, pend, disc, lockVars, qVars, sched, call, last, hist>>

EnqueueProcessFile == \E f \in Files : Enqueue("process_file", f)
EnqueueRemovedFile == \E f \in Files : Enqueue("process_removed_file", f)

----------------------------------------------------------------------------
(* Specifications *)

\* Jobs handled one after another: a worker receives a message only when no
\* other worker is in a job.
SeqReceive == \E w \in Workers : OthersIdle(w) /\ Receive(w)

\* process_file jobs, one after another, on registered files, with an Indexer
\* whose calls succeed.
NextSeq ==
  \/ EnqueueProcessFile
  \/ SeqReceive
  \/ \E w \in Workers : AddSteps(w) \/ DeleteSteps(w)
Spec == InitRegistered /\ [][NextSeq]_vars

\* process_file jobs on one file, one after another, with an Indexer whose calls
\* may fail; the last finished job is remembered.
InitTwice ==
  /\ files = [k \in FileKeys |-> NewRow("s1", "m1")]
  /\ ids = [k \in IdKeys |-> 0]
  /\ errs = {}
  /\ sites = [k \in Sites \X AllUsers |-> "new"]
  /\ index = {}
  /\ queue = EmptyBag
  /\ wk = [w \in Workers |-> IdleWk]
  /\ pend = [w \in Workers |-> NoPend]
  /\ disc = NoDisc
  /\ master = [d \in Masters |-> IdleMaster]
  /\ site_lock = "free"
  /\ QueueDirEmpty
  /\ sched = IdleSched
  /\ call = NoCall
  /\ last = NoJob
  /\ hist = [NoHist EXCEPT !.track = TRUE]
NextTwice ==
  \/ Enqueue("process_file", "f1")
  \/ SeqReceive
  \/ \E w \in Workers : AddSteps(w) \/ DeleteSteps(w)
  \/ \E w \in Workers : IndexAddFails(w) \/ IndexDelFails(w)
SpecTwice == InitTwice /\ [][NextTwice]_vars

\* The jobs of SpecTwice with every failure the handler meets on its way: the
\* payload cannot be fetched, the Indexer add fails inside batch_add or raises.
NextFaults ==
  \/ NextTwice
  \/ \E w \in Workers : ExtractFails(w)
  \/ \E w \in Workers : IndexAddRaises(w)
SpecFaults == InitTwice /\ [][NextFaults]_vars

\* The jobs of Spec and, among them, messages that are not well-formed jobs.
NextMalformed == NextSeq \/ EnqueueMalformed
SpecMalformed == InitRegistered /\ [][NextMalformed]_vars

\* The same with message bodies of any JSON type.
NextBodies ==
  \/ NextMalformed
  \/ EnqueueNotADict
  \/ \E w \in Workers : ReceiveNotADict(w)
  \/ \E w \in Workers : LogJobRaises(w)
SpecBodies == InitRegistered /\ [][NextBodies]_vars

\* Jobs of both types, one after another, and the Store's remove_site.
NextRemoveSite ==
  \/ EnqueueProcessFile
  \/ EnqueueRemovedFile
  \/ SeqReceive
  \/ \E w \in Workers : AddSteps(w) \/ DeleteSteps(w) \/ RemovedSteps(w)
  \/ \E s \in Sites, u \in Users : remove_site(s, u)
SpecRemoveSite == InitRegistered /\ [][NextRemoveSite]_vars

\* Two tenants have registered site s1 and its file f1; a producer sends jobs of
\* both types on f1 for either user, and the jobs are handled one after another.
InitTenants ==
  /\ files = [k \in FileKeys |-> IF k[1] = "f1" THEN NewRow("s1", "m1") ELSE NoRow]
  /\ ids = [k \in IdKeys |-> 0]
  /\ errs = {}
  /\ sites = [k \in Sites \X AllUsers |-> "new"]
  /\ index = {}
  /\ queue = EmptyBag
  /\ wk = [w \in Workers |-> IdleWk]
  /\ pend = [w \in Workers |-> NoPend]
  /\ disc = NoDisc
  /\ master = [d \in Masters |-> IdleMaster]
  /\ site_lock = "free"
  /\ QueueDirEmpty
  /\ sched = IdleSched
  /\ call = NoCall
  /\ last = NoJob
  /\ hist = NoHist
EnqueueTenant ==
  \E t \in {"process_file", "process_removed_file"}, u \in AllUsers :
     /\ AllIdle
     /\ QueueSize < MaxQueue
     /\ queue' = queue (+) SetToBag({Job(t, u, "f1")})
     /\ UNCHANGED <<dbVars, index, wk, pend, disc, lockVars, qVars, sched, call, last, hist>>
NextTenants ==
  \/ EnqueueTenant
  \/ SeqReceive
  \/ \E w \in Workers : AddSteps(w) \/ DeleteSteps(w) \/ RemovedSteps(w)
SpecTenants == InitTenants /\ [][NextTenants]_vars

\* Jobs of both types, one after another, with workers that may die in a job.
NextCrash ==
  \/ EnqueueProcessFile
  \/ EnqueueRemovedFile
  \/ SeqReceive
  \/ \E w \in Workers : AddSteps(w) \/ DeleteSteps(w) \/ RemovedSteps(w)
  \/ \E w \in Workers : Crash(w)
SpecCrash == InitRegistered /\ [][NextCrash]_vars

\* Two messages are visible and two workers handle them concurrently.
InitConc ==
  /\ files = [k \in FileKeys |-> NewRow("s1", "m1")]
  /\ ids = [k \in IdKeys |-> 0]
  /\ errs = {}
  /\ sites = [k \in Sites \X AllUsers |-> "new"]
  /\ index = {}
  /\ queue \in {SetToBag({Job("process_file", "u1", "f1"), Job("process_file", "u1", "f2")}),
                SetToBag({Job("process_file", "u1", "f1"),
                          Job("process_removed_file", "u1", "f1")})}
  /\ wk = [w \in Workers |-> IdleWk]
  /\ pend = [w \in Workers |-> NoPend]
  /\ disc = NoDisc
  /\ master = [d \in Masters |-> IdleMaster]
  /\ site_lock = "free"
  /\ QueueDirEmpty
  /\ sched = IdleSched
  /\ call = NoCall
  /\ last = NoJob
  /\ hist = [NoHist EXCEPT !.count = TRUE]
NextConc == \E w \in Workers : WorkerStep(w)
SpecConc == InitConc /\ [][NextConc]_vars

\* A process_file and a process_removed_file message for f1 are visible; two
\* workers handle them concurrently and may die in a job.
InitConcCrash ==
  /\ files = [k \in FileKeys |-> IF k = <<"f1", "u1">> THEN NewRow("s1", "m1") ELSE NoRow]
  /\ ids = [k \in IdKeys |-> 0]
  /\ errs = {}
  /\ sites = [k \in Sites \X AllUsers |-> IF k[2] = "u1" THEN "new" ELSE "none"]
  /\ index = {}
  /\ queue = SetToBag({Job("process_file", "u1", "f1"),
                        Job("process_removed_file", "u1", "f1")})
  /\ wk = [w \in Workers |-> IdleWk]
  /\ pend = [w \in Workers |-> NoPend]
  /\ disc = NoDisc
  /\ master = [d \in Masters |-> IdleMaster]
  /\ site_lock = "free"
  /\ QueueDirEmpty
  /\ sched = IdleSched
  /\ call = NoCall
  /\ last = NoJob
  /\ hist = NoHist
NextConcCrash == NextConc \/ \E w \in Workers : Crash(w)
SpecConcCrash == InitConcCrash /\ [][NextConcCrash]_vars

\* One process_file message for f1 was redelivered while its first worker was
\* still at work (the visibility timeout expired): the two deliveries are handled
\* by two workers at the same time.  f1 has any set of ids from an earlier job.
InitRedelivered ==
  /\ files = [k \in FileKeys |-> NewRow("s1", "m1")]
  /\ \E A \in SUBSET Ids :
       ids = [k \in IdKeys |-> IF k[1] = "f1" /\ k[3] \in A THEN 1 ELSE 0]
  /\ errs = {}
  /\ sites = [k \in Sites \X AllUsers |-> "new"]
  /\ index = {}
  /\ queue = SetToBag({Job("process_file", "u1", "f1")})
               (+) SetToBag({Job("process_file", "u1", "f1")})
  /\ wk = [w \in Workers |-> IdleWk]
  /\ pend = [w \in Workers |-> NoPend]
  /\ disc = NoDisc
  /\ master = [d \in Masters |-> IdleMaster]
  /\ site_lock = "free"
  /\ QueueDirEmpty
  /\ sched = IdleSched
  /\ call = NoCall
  /\ last = NoJob
  /\ hist = NoHist
NextRedelivered == \E w \in Workers : Receive(w) \/ AddSteps(w) \/ DeleteSteps(w)
SpecRedelivered == InitRedelivered /\ [][NextRedelivered]_vars

\* Discovery runs between jobs; the jobs they send are handled one after another.
\* A file is sent for processing when a run adds it, and no run gets to send a
\* process_removed_file message, so the workers take the steps of AddSteps only.
NextDisc ==
  \/ Discover
  \/ SeqReceive
  \/ \E w \in Workers : AddSteps(w)
SpecDisc == InitEmpty /\ [][NextDisc]_vars

\* The same, with a queue whose send_message can fail.
NextSendFails == NextDisc \/ DiscoverSendFails
SpecSendFails == InitEmpty /\ [][NextSendFails]_vars

\* scheduler_loop, the WHERE clause of its SELECT: an active site is due when
\* last_processed IS NULL or last_processed + process_interval_hours <= now.
Due(k) == sites[k] \in {"new", "elapsed"}

\* The clock passes last_processed + process_interval_hours of a site.
IntervalElapses ==
  /\ \E k \in Sites \X Users :
       /\ sites[k] = "processed"
       /\ sites' = [sites EXCEPT ![k] = "elapsed"]
  /\ UNCHANGED <<files, ids, errs, index, queue, wk, pend, disc, last, hist,
                 lockVars, qVars, sched, call>>

\* Discovery runs and process_file jobs over a clock that makes processed sites
\* due again; every fetch, send, Store statement and indexer call succeeds.
NextDue == NextDisc \/ IntervalElapses
SpecDue == InitEmpty /\ [][NextDue]_vars

\* Two threads of one process run add_schema_map_to_site for the same site and
\* user, each once, on the File rows that an earlier discovery left.
InitLock ==
  /\ \E A \in SUBSET Files :
       files = [k \in FileKeys |-> IF k[1] \in A THEN NewRow("s1", "m1") ELSE NoRow]
  /\ ids = [k \in IdKeys |-> 0]
  /\ errs = {}
  /\ sites = [k \in Sites \X AllUsers |-> "new"]
  /\ index = {}
  /\ queue = EmptyBag
  /\ wk = [w \in Workers |-> IdleWk]
  /\ pend = [w \in Workers |-> NoPend]
  /\ disc = NoDisc
  /\ master = [d \in Masters |-> IdleMaster]
  /\ site_lock = "free"
  /\ QueueDirEmpty
  /\ sched = IdleSched
  /\ call = NoCall
  /\ last = NoJob
  /\ hist = NoHist
NextLock == \E d \in Masters : MasterStep(d)
SpecLock == InitLock /\ [][NextLock]_vars

----------------------------------------------------------------------------
(* queue_provider/file_queue.py, one system call per step *)

qUnchanged == <<files, ids, errs, sites, index, queue, wk, pend, disc, last, hist,
                lockVars>>

\* os.rename(src, dst) on a POSIX file system: dst is replaced when it exists.
rename(dir, src, dst) == [dir EXCEPT ![dst] = dir[src], ![src] = NoFile]

\* send_message: job_id is "job-" + utcnow() to the microsecond + ".json".  The
\* wall clock is read by each caller on its own; two callers can read the same
\* value, so the name is any of Names.
SendStamp(p) ==
  /\ snd[p].pc = "idle"
  /\ nsent < MaxSends
  /\ \E n \in Names, b \in Bodies :
       snd' = [snd EXCEPT ![p] = [pc |-> "stamped", name |-> n,
                                  content |-> [uid |-> nsent + 1, body |-> b]]]
  /\ nsent' = nsent + 1
  /\ UNCHANGED <<qUnchanged, sched, call, qdir, rcv>>

\* send_message: open(temp_path, 'w'); json.dump(message, f).
SendWrite(p) ==
  /\ snd[p].pc = "stamped"
  /\ qdir' = [qdir EXCEPT ![<<"tmp", snd[p].name>>] = snd[p].content]
  /\ snd' = [snd EXCEPT ![p].pc = "written"]
  /\ UNCHANGED <<qUnchanged, sched, call, rcv, nsent>>

\* send_message: os.rename(temp_path, final_path), return True; when the temp
\* file is gone the rename raises and send_message returns False.
SendRename(p) ==
  /\ snd[p].pc = "written"
  /\ qdir' = IF qdir[<<"tmp", snd[p].name>>] = NoFile THEN qdir
             ELSE rename(qdir, <<"tmp", snd[p].name>>, <<"job", snd[p].name>>)
  /\ snd' = [snd EXCEPT ![p] = IdleSender]
  /\ UNCHANGED <<qUnchanged, sched, call, rcv, nsent>>

\* receive_message: sorted(os.listdir(queue_dir)), keeping job-*.json.
listdir == SelectSeq(NameSeq, LAMBDA n : qdir[<<"job", n>>] # NoFile)

ReceiveList(r) ==
  /\ rcv[r].pc = "idle"
  /\ rcv' = [rcv EXCEPT ![r] = [IdleReceiver EXCEPT !.pc = "scan", !.listing = listdir]]
  /\ UNCHANGED <<qUnchanged, sched, call, qdir, snd, nsent>>

\* receive_message: the loop is over without a claim, return None.
ReceiveNone(r) ==
  /\ rcv[r].pc = "scan"
  /\ rcv[r].listing = <<>>
  /\ rcv' = [rcv EXCEPT ![r] = IdleReceiver]
  /\ UNCHANGED <<qUnchanged, sched, call, qdir, snd, nsent>>

\* receive_message: os.rename(job_path, processing_path); a missing job_path
\* raises FileNotFoundError and the loop goes on with the next name.
ReceiveRename(r) ==
  /\ rcv[r].pc = "scan"
  /\ rcv[r].listing # <<>>
  /\ LET n == Head(rcv[r].listing)
     IN IF qdir[<<"job", n>>] = NoFile
        THEN /\ rcv' = [rcv EXCEPT ![r].listing = Tail(@)]
             /\ UNCHANGED qdir
        ELSE /\ qdir' = rename(qdir, <<"job", n>>, <<"processing", n>>)
             /\ rcv' = [rcv EXCEPT ![r].pc = "claimed", ![r].name = n]
  /\ UNCHANGED <<qUnchanged, sched, call, snd, nsent>>

\* receive_message: open(processing_path), json.load, return QueueMessage(
\* id=filename, content, receipt_handle=processing_path); a missing file raises
\* FileNotFoundError and the loop goes on.
ReceiveRead(r) ==
  /\ rcv[r].pc = "claimed"
  /\ LET n == rcv[r].name
     IN rcv' = IF qdir[<<"processing", n>>] = NoFile
               THEN [rcv EXCEPT ![r].pc = "scan", ![r].listing = Tail(@)]
               ELSE [rcv EXCEPT ![r].pc = "held", ![r].listing = <<>>,
                                ![r].msg = [id |-> n,
                                            content |-> qdir[<<"processing", n>>],
                                            receipt_handle |-> n]]
  /\ UNCHANGED <<qUnchanged, sched, call, qdir, snd, nsent>>

\* delete_message: os.remove(receipt_handle) when it exists; return True.
delete_message(r) ==
  /\ rcv[r].pc = "held"
  /\ qdir' = [qdir EXCEPT ![<<"processing", rcv[r].msg.receipt_handle>>] = NoFile]
  /\ rcv' = [rcv EXCEPT ![r].pc = "idle", ![r].op = "ack"]
  /\ UNCHANGED <<qUnchanged, sched, call, snd, nsent>>

\* return_message: os.rename(receipt_handle, receipt_handle without
\* ".processing") when receipt_handle exists; return True.
return_message(r) ==
  /\ rcv[r].pc = "held"
  /\ LET n == rcv[r].msg.receipt_handle
     IN qdir' = IF qdir[<<"processing", n>>] = NoFile THEN qdir
                ELSE rename(qdir, <<"processing", n>>, <<"job", n>>)
  /\ rcv' = [rcv EXCEPT ![r].pc = "idle", ![r].op = "nack"]
  /\ UNCHANGED <<qUnchanged, sched, call, snd, nsent>>

\* The worker that holds a message crashes or hangs, and visibility_timeout
\* seconds (worker.py: 300) pass after its receive_message.  receive_message
\* does not use its visibility_timeout argument and nothing in FileQueue runs on
\* a timer, so the directory stays as it is.
VisibilityTimeout(r) ==
  /\ rcv[r].pc = "held"
  /\ rcv' = [rcv EXCEPT ![r].pc = "timed_out"]
  /\ UNCHANGED <<qUnchanged, sched, call, qdir, snd, nsent>>

\* The crashed worker is started again: worker_loop begins with nothing in hand.
Restart(r) ==
  /\ rcv[r].pc = "timed_out"
  /\ rcv' = [rcv EXCEPT ![r] = IdleReceiver]
  /\ UNCHANGED <<qUnchanged, sched, call, qdir, snd, nsent>>

SenderStep(p) == SendStamp(p) \/ SendWrite(p) \/ SendRename(p)
ReceiverStep(r) ==
  \/ ReceiveList(r)
  \/ ReceiveNone(r)
  \/ ReceiveRename(r)
  \/ ReceiveRead(r)
  \/ delete_message(r)
  \/ return_message(r)

\* Senders and receivers on one queue directory; a receiver may crash.
NextFileQueue ==
  \/ \E p \in Senders : SenderStep(p)
  \/ \E r \in Receivers : ReceiverStep(r)
  \/ \E r \in Receivers : VisibilityTimeout(r)
  \/ \E r \in Receivers : Restart(r)
SpecFileQueue == InitEmpty /\ [][NextFileQueue]_vars

----------------------------------------------------------------------------
(* api.py: scheduler_loop and process_site_async *)

schedUnchanged == <<files, ids, errs, sites, index, queue, wk, pend, disc, last, hist,
                    lockVars, qVars, call>>

\* The tasks of the current tick that have not completed.
Unfinished == {s \in SchedulerSites : sched.task[s] \in {"created", "running"}}

\* scheduler_loop: the SELECT of the due sites (which sites are due is up to the
\* clock and the workers); one process_site_async coroutine is created for each
\* and the loop goes to asyncio.gather; with no due site it closes the
\* connection and sleeps 60 s.
SchedulerQuery ==
  /\ sched.pc = "query"
  /\ sched.ticks < MaxTicks
  /\ \E due \in SUBSET SchedulerSites :
       sched' = [sched EXCEPT
                   !.task = [s \in SchedulerSites |->
                               IF s \in due THEN "created" ELSE "none"],
                   !.pc = IF due = {} THEN "query" ELSE "gather",
                   !.ticks = IF due = {} THEN @ + 1 ELSE @]
  /\ UNCHANGED schedUnchanged

\* scheduler_loop: db.get_connection or the SELECT raises; the except clause of
\* the loop body prints, closes the connection, and the loop sleeps.
SchedulerQueryRaises ==
  /\ sched.pc = "query"
  /\ sched.ticks < MaxTicks
  /\ sched' = [sched EXCEPT !.task = [s \in SchedulerSites |-> "none"],
                            !.ticks = @ + 1]
  /\ UNCHANGED schedUnchanged

\* process_site_async: run_in_executor hands process_site to a pool thread.
TaskStart(s) ==
  /\ sched.pc = "gather"
  /\ sched.task[s] = "created"
  /\ sched' = [sched EXCEPT !.task[s] = "running"]
  /\ UNCHANGED schedUnchanged

\* process_site returns; the coroutine of the site is done.
TaskReturns(s) ==
  /\ sched.pc = "gather"
  /\ sched.task[s] = "running"
  /\ sched' = [sched EXCEPT !.task[s] = "done"]
  /\ UNCHANGED schedUnchanged

\* The discovery of the site raises: process_site_async catches the exception
\* and prints it; the coroutine of the site is done.
TaskRaises(s) ==
  /\ sched.pc = "gather"
  /\ sched.task[s] = "running"
  /\ sched' = [sched EXCEPT !.task[s] = "raised", !.failed = TRUE]
  /\ UNCHANGED schedUnchanged

\* A gather that gives up at the first exception of a task.
GatherReturns_AtFirstException ==
  /\ sched.pc = "gather"
  /\ Unfinished = {} \/ \E s \in SchedulerSites : sched.task[s] = "raised"
  /\ sched' = [sched EXCEPT !.pc = "query", !.ticks = @ + 1]
  /\ UNCHANGED schedUnchanged

\* scheduler_loop: asyncio.gather(*tasks, return_exceptions=True) returns when
\* every task is done; conn.close(), asyncio.sleep(60), next iteration.
GatherReturns ==
  /\ sched.pc = "gather"
  /\ Unfinished = {}
  /\ sched' = [sched EXCEPT !.pc = "query", !.ticks = @ + 1]
  /\ UNCHANGED schedUnchanged

NextScheduler ==
  \/ SchedulerQuery
  \/ SchedulerQueryRaises
  \/ \E s \in SchedulerSites : TaskStart(s) \/ TaskReturns(s) \/ TaskRaises(s)
  \/ GatherReturns
SpecScheduler == InitEmpty /\ [][NextScheduler]_vars

\* stop_scheduler: scheduler_running = False and scheduler_task.cancel().  The
\* future of run_coroutine_threadsafe is done from this moment; the loop gets
\* CancelledError at its await (gather or sleep), gather cancels the coroutines
\* of the tick, and a process_site that a pool thread is running goes on to its
\* end: a thread cannot be cancelled.
stop_scheduler ==
  /\ sched' = [sched EXCEPT
                 !.pc = "stopped",
                 !.task = [s \in SchedulerSites |-> "none"],
                 !.orphans = @ \cup {s \in SchedulerSites : sched.task[s] = "running"},
                 !.outcome = "stopping"]
  /\ UNCHANGED schedUnchanged

\* start_scheduler: returns with "Already running" if scheduler_task is not
\* done; otherwise sets scheduler_running and submits a new scheduler_loop.
start_scheduler ==
  /\ sched' = IF sched.pc # "stopped"
              THEN [sched EXCEPT !.outcome = "already_running"]
              ELSE [sched EXCEPT !.pc = "query", !.outcome = "started"]
  /\ UNCHANGED schedUnchanged

\* process_site returns in the pool thread of a cancelled loop.
ThreadReturns(s) ==
  /\ s \in sched.orphans
  /\ sched' = [sched EXCEPT !.orphans = @ \ {s}]
  /\ UNCHANGED schedUnchanged

\* The scheduler under any sequence of start_scheduler and stop_scheduler calls.
NextStartStop ==
  \/ NextScheduler
  \/ stop_scheduler
  \/ start_scheduler
  \/ \E s \in SchedulerSites : ThreadReturns(s)
SpecStartStop == InitEmpty /\ [][NextStartStop]_vars

----------------------------------------------------------------------------
(* vector_db.py: VectorDB.batch_add and VectorDB.batch_delete *)

\* The most documents in one request to the search backend.
batch_size == 100

\* The longest batch handed to the Indexer.
MaxDocs == 201

\* The batches handed to the Indexer: n ids, i -> i % m; a small m gives a batch
\* in which ids repeat.
Moduli == {7, 1000}
Batch(n, m) == [i \in 1..n |-> i % m]

\* hashlib.sha256(id.encode('utf-8')).hexdigest()[:32]
url_hash(id) == <<"sha256", id>>

\* _prepare_document: the key is the hash of the id, the id itself goes to "url".
prepare_document(id) == [id |-> url_hash(id), url |-> id]

\* batch_delete: {"id": hashlib.sha256(id.encode('utf-8')).hexdigest()[:32]}
delete_document(id) == [id |-> url_hash(id)]

\* A loop that leaves one document out between two requests.
next_start_SkipsOne(i) == i + batch_size + 1

\* for i in range(0, len(documents), batch_size)
next_start(i) == i + batch_size

callUnchanged == <<files, ids, errs, sites, index, queue, wk, pend, disc, last, hist,
                   lockVars, qVars, sched>>

Min(a, b) == IF a < b THEN a ELSE b

\* batch_add(items) / batch_delete(ids): the documents are prepared.
BatchCall ==
  /\ call = NoCall
  /\ \E fn \in {"batch_add", "batch_delete"}, n \in 0..MaxDocs, m \in Moduli :
       call' = [fn |-> fn, input |-> Batch(n, m),
                documents |-> [i \in 1..n |->
                                 IF fn = "batch_add" THEN prepare_document(Batch(n, m)[i])
                                 ELSE delete_document(Batch(n, m)[i])],
                i |-> 0, requests |-> <<>>, raised |-> FALSE]
  /\ UNCHANGED callUnchanged

\* One pass of the loop: batch = documents[i:i + batch_size] is sent with
\* upload_documents or delete_documents.
SendRequest ==
  /\ call.fn \in {"batch_add", "batch_delete"}
  /\ ~call.raised
  /\ call.i < Len(call.documents)
  /\ call' = [call EXCEPT
       !.requests = Append(@, SubSeq(call.documents, call.i + 1,
                                     Min(call.i + batch_size, Len(call.documents)))),
       !.i = next_start(call.i)]
  /\ UNCHANGED callUnchanged

\* The request raises: the except clause prints and the call returns, the rest
\* of the documents is not sent.
RequestRaises ==
  /\ call.fn \in {"batch_add", "batch_delete"}
  /\ ~call.raised
  /\ call.i < Len(call.documents)
  /\ call' = [call EXCEPT !.raised = TRUE]
  /\ UNCHANGED callUnchanged

\* The loop is over (or the call raised): the call returns.
BatchReturn ==
  /\ call.fn \in {"batch_add", "batch_delete"}
  /\ call.raised \/ call.i >= Len(call.documents)
  /\ call' = NoCall
  /\ UNCHANGED callUnchanged

NextIndexer == BatchCall \/ SendRequest \/ RequestRaises \/ BatchReturn
SpecIndexer == InitEmpty /\ [][NextIndexer]_vars

----------------------------------------------------------------------------
(* master.py: parse_schema_map_xml *)

\* The most url elements in a schema map.
MaxUrls == 2

\* The values of the contentType attribute: absent (get returns ''), two
\* spellings of the schema.org type, and another type.
ContentTypes == {"", "structuredData/schema.org", "StructuredData/Schema.ORG", "text/html"}

\* str.lower() on the content types.
lower(ct) == IF ct = "StructuredData/Schema.ORG" THEN "structureddata/schema.org"
             ELSE IF ct = "structuredData/schema.org" THEN "structureddata/schema.org"
             ELSE ct

\* 'schema.org' in s, on the content types and their lower-case forms.
contains_schema_org(s) == s \in {"structuredData/schema.org", "structureddata/schema.org"}

\* A check of the attribute as it is spelled.
is_schema_org_CaseSensitive(ct) == contains_schema_org(ct)

\* 'schema.org' in content_type.lower()
is_schema_org(ct) == contains_schema_org(lower(ct))

\* The text of a loc element: None for an empty element, else white space only,
\* an absolute URL, or a relative reference with or without white space around
\* it.
LocTexts == {"None", "blank", "rel", "abs", "padded_rel"}

\* loc.text.strip()
strip(t) == IF t = "padded_rel" THEN "rel" ELSE IF t = "blank" THEN "" ELSE t

\* urljoin(base_url, t): an absolute URL stands, a relative reference is
\* resolved against the base, the empty reference gives the base.
urljoin(base, t) == IF t = "abs" THEN <<"abs">>
                    ELSE IF t = "rel" THEN <<base, "rel">>
                    ELSE <<base>>

Namespaces == {"sitemap", "none"}
NoLoc == [ns |-> "none", text |-> "absent"]
Locs == {NoLoc} \cup [ns : {"sitemap"}, text : LocTexts]
                \cup {[ns |-> "none", text |-> "rel"]}

\* The url elements under the root: the namespace of the tag, the contentType
\* attribute, the loc child.
UrlElems == [ns : Namespaces, contentType : ContentTypes, loc : Locs]

RECURSIVE SeqsUpTo(_, _)
SeqsUpTo(S, n) ==
  IF n = 0 THEN {<<>>}
  ELSE LET shorter == SeqsUpTo(S, n - 1)
       IN shorter \cup {Append(q, e) : q \in {r \in shorter : Len(r) = n - 1}, e \in S}

\* The documents: text that ET.fromstring cannot parse, or a root with url
\* elements.
NotXml == [wellformed |-> FALSE, urls |-> <<>>]
Documents == {NotXml} \cup {[wellformed |-> TRUE, urls |-> q] : q \in SeqsUpTo(UrlElems, MaxUrls)}

RECURSIVE SelectNs(_, _)
SelectNs(q, ns) ==
  IF q = <<>> THEN <<>>
  ELSE IF Head(q).ns = ns THEN <<Head(q)>> \o SelectNs(Tail(q), ns)
  ELSE SelectNs(Tail(q), ns)

\* root.findall('sitemap:url', namespace), then the Clark notation (the same
\* elements), then root.findall('url') when none was found.
findall_urls(q) ==
  IF SelectNs(q, "sitemap") # <<>> THEN SelectNs(q, "sitemap") ELSE SelectNs(q, "none")

\* The loop over the url elements: schema_urls.append((url, content_type)) for
\* an element of a schema.org type whose loc is there with a text (the loc is
\* looked up as sitemap:loc, in Clark notation, and as loc: in either namespace
\* it is found).
RECURSIVE schema_urls(_, _)
schema_urls(q, base) ==
  IF q = <<>> THEN <<>>
  ELSE LET e == Head(q)
           keep == /\ is_schema_org(e.contentType)
                   /\ e.loc # NoLoc
                   /\ e.loc.text # "None"
       IN (IF keep THEN << <<urljoin(base, strip(e.loc.text)), e.contentType>> >> ELSE <<>>)
          \o schema_urls(Tail(q), base)

\* parse_schema_map_xml(xml_content, base_url): ET.ParseError gives [].
parse_schema_map_xml(doc, base) ==
  IF ~doc.wellformed THEN <<>> ELSE schema_urls(findall_urls(doc.urls), base)

\* A schema map is fetched and handed to parse_schema_map_xml.
ParseCall ==
  /\ call = NoCall
  /\ \E doc \in Documents :
       call' = [fn |-> "parse_schema_map_xml", xml_content |-> doc, base_url |-> "base",
                returned |-> FALSE, result |-> <<>>]
  /\ UNCHANGED callUnchanged

\* The function returns its list.
ParseReturn ==
  /\ call.fn = "parse_schema_map_xml"
  /\ ~call.returned
  /\ call' = [call EXCEPT !.returned = TRUE,
                          !.result = parse_schema_map_xml(call.xml_content, call.base_url)]
  /\ UNCHANGED callUnchanged

\* The caller is done with the list.
ParseDone ==
  /\ call.fn = "parse_schema_map_xml"
  /\ call.returned
  /\ call' = NoCall
  /\ UNCHANGED callUnchanged

NextParse == ParseCall \/ ParseReturn \/ ParseDone
SpecParse == InitEmpty /\ [][NextParse]_vars

----------------------------------------------------------------------------
(* worker.py: extract_schema_data_from_url and process_json_array *)

\* The most items in a JSON list of a payload.
MaxItems == 2

\* A JSON object as the extraction sees it: its @id ("none" when it has none),
\* whether its @type is in skip_types, and its @graph: a list (here of at most
\* one object), empty also when the object has no @graph.
GraphItems == [isdict : {TRUE}, id : Ids \cup {"none"}, skip : BOOLEAN, graph : {<<>>}]
JsonObjects == [isdict : {TRUE}, id : Ids \cup {"none"}, skip : BOOLEAN,
                graph : {<<>>} \cup {<<g>> : g \in GraphItems}]

\* A JSON value that is not an object; the keys of a dict, which a for loop over
\* the dict yields, are such values.
Scalar == [isdict |-> FALSE, id |-> "none", skip |-> FALSE, graph |-> <<>>]

\* The JSON values of a payload or of the JSON half of a TSV line: one object,
\* or a list of objects and scalars.
JsonValues ==
  {[kind |-> "object", obj |-> o, items |-> <<>>] : o \in JsonObjects}
  \cup {[kind |-> "list", obj |-> Scalar, items |-> q] :
           q \in SeqsUpTo(JsonObjects \cup {Scalar}, MaxItems)}

\* process_json_array(json_array): the dict items with an @id whose type is not
\* skipped, in order (the ids are the @id of the objects).
RECURSIVE process_json_array(_)
process_json_array(q) ==
  IF q = <<>> THEN <<>>
  ELSE (IF Head(q).isdict /\ Head(q).id # "none" /\ ~Head(q).skip
        THEN <<Head(q)>> ELSE <<>>) \o process_json_array(Tail(q))

\* for i, obj_id in enumerate(ids): if obj_id not in unique_objects: ... , on a
\* dict that holds the objects of seen already.
RECURSIVE keep_first(_, _)
keep_first(seen, q) ==
  IF q = <<>> THEN seen
  ELSE keep_first(IF \E j \in 1..Len(seen) : seen[j].id = Head(q).id
                  THEN seen ELSE Append(seen, Head(q)),
                  Tail(q))

\* for obj in json_data: the @graph list of a dict without @id goes through
\* process_json_array and the first-seen rule.
RECURSIVE graphs(_, _)
graphs(seen, q) ==
  IF q = <<>> THEN seen
  ELSE graphs(IF Head(q).isdict /\ Head(q).graph # <<>> /\ Head(q).id = "none"
              THEN keep_first(seen, process_json_array(Head(q).graph))
              ELSE seen,
              Tail(q))

\* The two loops over a sequence of items; list(unique_objects.values()).
unique_objects(q) == graphs(keep_first(<<>>, process_json_array(q)), q)

\* What a for loop over the value yields: the items of a list, the keys of a
\* dict.
iterate(v) == IF v.kind = "list" THEN v.items ELSE <<Scalar, Scalar>>

\* The JSON branch: json_data = [json_data] if not isinstance(json_data, list).
json_branch(v) == unique_objects(IF v.kind = "list" THEN v.items ELSE <<v.obj>>)

\* The TSV branch on a payload of one line: parsed = json.loads(json_str) goes to
\* process_json_array and to the @graph loop as it is.
tsv_branch(v) == unique_objects(iterate(v))

\* extract_schema_data_from_url(url, content_type) on a fetched payload.
extract_schema_data_from_url(v, content_type) ==
  IF content_type = "tsv" THEN tsv_branch(v) ELSE json_branch(v)

\* A file is fetched: its payload is the JSON value, or one TSV line with the
\* value as its JSON half.
ExtractCall ==
  /\ call = NoCall
  /\ \E v \in JsonValues, ct \in {"tsv", "json"} :
       call' = [fn |-> "extract_schema_data_from_url", value |-> v, content_type |-> ct,
                returned |-> FALSE, objects |-> <<>>]
  /\ UNCHANGED callUnchanged

ExtractReturn ==
  /\ call.fn = "extract_schema_data_from_url"
  /\ ~call.returned
  /\ call' = [call EXCEPT !.returned = TRUE,
                 !.objects = extract_schema_data_from_url(call.value, call.content_type)]
  /\ UNCHANGED callUnchanged

ExtractDone ==
  /\ call.fn = "extract_schema_data_from_url"
  /\ call.returned
  /\ call' = NoCall
  /\ UNCHANGED callUnchanged

NextExtract == ExtractCall \/ ExtractReturn \/ ExtractDone
SpecExtract == InitEmpty /\ [][NextExtract]_vars

----------------------------------------------------------------------------
(* Claims *)

\* The workers that have finished process_job for a process_file message whose
\* File row existed, so that the payload was fetched, and have not yet acked or
\* nacked it.
FinishedProcessFile ==
  {w \in Workers : wk[w].pc = "finish" /\ wk[w].msg.type = "process_file"
                     /\ wk[w].fetched}

\* C1: for user u1 and an Indexer whose calls succeed, after any number of
\* process_file jobs run one after another to completion, an id is in the index
\* if and only if some file of u1 lists it (get_file_ids).
C1_IndexMirrorsIds ==
  AllIdle =>
    \A x \in Ids : x \in index <=> \E f \in Files : x \in committed_file_ids(f, "u1")

\* C2: two workers handle process_file for f1 and f2 concurrently and both payloads
\* hold an id that u1 did not reference before: once both jobs are done, exactly
\* one Indexer add was issued for that id.
C2_ExactlyOneAdd ==
  \A x \in Ids :
     (Quiescent /\ x \in committed_file_ids("f1", "u1")
                /\ x \in committed_file_ids("f2", "u1"))
       => hist.adds[x] = 1

\* C3: when no job is in progress and no message is pending, an id with
\* ref_count 0 for u1 is absent from the index, also after a job was interrupted
\* past its update_file_ids commit and its message redelivered.
C3_UnreferencedIsAbsent ==
  Quiescent => \A x \in Ids : ref_count(x, "u1") = 0 => x \notin index

\* C4: every ids row has a File row with the same (file_url, user_id).
C4_IdsRowHasFileRow ==
  \A k \in IdKeys : ids[k] > 0 => files[<<k[1], k[2]>>] # NoRow

C6_SecondRunChangesNothing ==
  (disc.fresh /\ disc.repeat) =>
    /\ ~disc.raised
    /\ disc.added = {} /\ disc.removed = {}
    /\ ~disc.changed

\* C7: update_site_files, for active files A and listed files T, returns
\* added = T minus A and removed = A minus T and commits: afterwards
\* get_site_files is T, every removed file keeps its row with is_active = 0, and
\* every added file is active with the schema map and site of the triples.
C7_UpdateSiteFiles ==
  (disc.fresh /\ disc.status = 200 /\ disc.listed # {}) =>
    /\ ~disc.raised
    /\ disc.added = disc.listed \ disc.before
    /\ disc.removed = disc.before \ disc.listed
    /\ get_site_files(disc.site, disc.user) = disc.listed
    /\ \A f \in disc.removed :
         files[<<f, disc.user>>] # NoRow /\ ~files[<<f, disc.user>>].is_active
    /\ \A f \in disc.added :
         /\ files[<<f, disc.user>>].is_active
         /\ files[<<f, disc.user>>].schema_map = disc.schema_map
         /\ files[<<f, disc.user>>].site = disc.site

\* C8: when a run fetches (HTTP 200) a map that no longer lists an active file,
\* also a map that lists no file at all, the file is tombstoned and a
\* process_removed_file job for it is enqueued; once the job is drained the file
\* has no ids rows and no File row.
C8_RemovedFileIsDrained ==
  \A f \in hist.omitted :
     /\ disc.fresh =>
          /\ files[<<f, disc.user>>] # NoRow /\ ~files[<<f, disc.user>>].is_active
          /\ \E m \in BagToSet(queue) :
               m.type = "process_removed_file" /\ m.file = f /\ m.user = disc.user
     /\ Quiescent =>
          /\ files[<<f, disc.user>>] = NoRow
          /\ committed_file_ids(f, disc.user) = {}

C10_SecondRunIsIdle ==
  \A w \in FinishedProcessFile :
     (last.type = "process_file" /\ last.fetched /\ last.result
        /\ last.file = wk[w].msg.file /\ last.user = wk[w].msg.user
        /\ last.ids = wk[w].ids)
       => /\ wk[w].added = {} /\ wk[w].removed = {}
          /\ wk[w].addCalls = 0 /\ wk[w].delCalls = 0

\* The workers that have finished process_job for a process_removed_file message
\* and have not yet acked or nacked it.
FinishedRemovedFile ==
  {w \in Workers : wk[w].pc = "finish" /\ wk[w].msg.type = "process_removed_file"}

\* C11: a process_removed_file job on (F, U) that ran to completion has deleted
\* every ids row of (F, U), has sent to the Indexer delete exactly the prior ids
\* of F that no file of U references afterwards (none that another file still
\* lists), and has deleted the File row of (F, U).
C11_RemovedFileJob ==
  \A w \in FinishedRemovedFile :
     LET f == wk[w].msg.file
         u == wk[w].msg.user
         unreferenced == {x \in wk[w].ids : ref_count(x, u) = 0}
     IN /\ wk[w].result
        /\ committed_file_ids(f, u) = {}
        /\ wk[w].toDel = unreferenced
        /\ unreferenced \cap index = {}
        /\ files[<<f, u>>] = NoRow

\* A removal job has finished on a file that held one id nobody else references
\* and one id that another file still lists.
C11_Witness ==
  \E w \in FinishedRemovedFile :
     /\ wk[w].toDel # {}
     /\ wk[w].ids \ wk[w].toDel # {}
     /\ wk[w].delCalls = 1

RECURSIVE SumIds(_, _, _)
SumIds(S, f, u) ==
  IF S = {} THEN 0
  ELSE LET x == CHOOSE y \in S : TRUE
       IN ids[<<f, u, x>>] + SumIds(S \ {x}, f, u)

\* SELECT COUNT(*) FROM ids WHERE file_url = f AND user_id = u, on a fresh connection.
count_file_rows(f, u) == SumIds(Ids, f, u)

\* C12: after a process_file job that returns success for (F, U),
\* files.number_of_items of (F, U) is the number of ids rows of (F, U).
C12_NumberOfItems ==
  \A w \in FinishedProcessFile :
     wk[w].result =>
       files[<<wk[w].msg.file, wk[w].msg.user>>].number_of_items
         = count_file_rows(wk[w].msg.file, wk[w].msg.user)

\* The threads that are between get_site_files and the end of the with block.
InUpdateSiteFiles == {d \in Masters : master[d].pc \in {"locked", "commit"}}

\* C13: in one process at most one update_site_files call for a site is between
\* its read of the existing files and its commit; and when two overlapping
\* discoveries of (s1, u1) have both run update_site_files, the active files are
\* the view of the one that ran it second.
C13_SiteLock ==
  /\ Cardinality(InUpdateSiteFiles) <= 1
  /\ \A d \in Masters :
       ((\A e \in Masters : master[e].pc = "done") /\ master[d].rank = 2)
         => get_site_files("s1", "u1") = master[d].listed

\* The workers that have finished process_job for a process_file message whose
\* payload could not be fetched or parsed.
FinishedFetchFailure ==
  {w \in Workers : wk[w].pc = "finish" /\ wk[w].msg.type = "process_file"
                     /\ wk[w].fetchFailed}

\* C14: when the fetch or the parse of the payload of a process_file job fails,
\* the handler has recorded an extraction_failed error for (file_url, user_id)
\* and returns failure, so that worker_loop nacks the message.
C14_ExtractionFailure ==
  \A w \in FinishedFetchFailure :
     /\ ~wk[w].result
     /\ <<wk[w].msg.file, wk[w].msg.user, "extraction_failed">> \in errs

\* C15: a job whose type is neither process_file nor process_removed_file, or
\* whose user_id is missing, is acked: when worker_loop is done with it, the
\* message is not put back into the queue and so is not delivered again.
C15_MalformedJobIsDropped ==
  [][\A w \in Workers :
       (wk[w].pc = "finish" /\ Malformed(wk[w].msg) /\ wk'[w].pc = "idle")
         => CopiesIn(wk[w].msg, queue') = CopiesIn(wk[w].msg, queue)]_vars

\* The workers that have finished process_job for a process_file message in
\* which the Indexer add failed.
FinishedAddFailure ==
  {w \in Workers : wk[w].pc = "finish" /\ wk[w].msg.type = "process_file"
                     /\ wk[w].addFailed}

\* C16: when the Indexer add of a process_file job fails, the job returns
\* success, worker_loop acks the message (it is not made visible again), and the
\* ids rows that update_file_ids wrote in the job are still there.
C16_IndexerFailureIsAcked ==
  [][\A w \in FinishedAddFailure :
       wk'[w].pc = "idle" =>
         /\ wk[w].result
         /\ CopiesIn(wk[w].msg, queue') = CopiesIn(wk[w].msg, queue)
         /\ \A x \in wk[w].added : ids'[<<wk[w].msg.file, wk[w].msg.user, x>>] > 0]_vars

\* A job that added ids has finished after its Indexer add failed.
C16_Witness == \E w \in FinishedAddFailure : wk[w].added # {}

\* C17: when the vector-store backend raises during the Indexer add of a
\* process_file job, the worker gets to see the failure and a vector_db_add_failed
\* error row for (file_url, user_id) is there to read once the job has ended.
C17_AddFailureIsRecorded ==
  \A w \in FinishedAddFailure :
     <<wk[w].msg.file, wk[w].msg.user, "vector_db_add_failed">> \in errs

\* The receivers that hold a message: receive_message returned it and neither
\* delete_message nor return_message was called for it yet.
Holding == {r \in Receivers : rcv[r].pc = "held"}

C19_ClaimedByOne ==
  \A r1, r2 \in Holding :
     rcv[r1].msg.content.uid = rcv[r2].msg.content.uid => r1 = r2

\* C20: once delete_message was called for a received message no later
\* receive_message returns it; right after return_message the message is
\* visible again under the same id and with the same body.
C20_AckAndNack ==
  [][\A r \in Holding :
       /\ (rcv'[r].pc = "idle" /\ rcv'[r].op = "nack")
            => qdir'[<<"job", rcv[r].msg.id>>] = rcv[r].msg.content
       /\ (rcv'[r].pc = "idle" /\ rcv'[r].op = "ack")
            => \A k \in Kinds \X Names : qdir'[k] # rcv[r].msg.content]_vars

\* C21: worker_loop calls exactly one of delete_message and return_message for
\* every message receive_message returned, before it receives again, whatever
\* the body: a worker that has a message in hand gets back to receive_message
\* only through the branch that makes that one call (pc "finish").
C21_AckOrNackBeforeNextReceive ==
  [][\A w \in Workers :
       (wk[w].pc # "idle" /\ wk'[w].pc = "idle") => wk[w].pc = "finish"]_vars

\* C22: two workers handle the same process_file message at the same time and
\* extract the same set S: when both have finished with success, the ids rows of
\* (file, user) are exactly S, one row per id.
C22_RedeliveryConverges ==
  \A v, w \in FinishedProcessFile :
     (v # w /\ wk[v].msg = wk[w].msg /\ wk[v].ids = wk[w].ids
            /\ wk[v].result /\ wk[w].result)
       => \A x \in Ids :
            ids[<<wk[w].msg.file, wk[w].msg.user, x>>] = IF x \in wk[w].ids THEN 1 ELSE 0

C24_Non200ChangesNothing ==
  [][(disc'.fresh /\ disc'.status # 200)
       => /\ files' = files
          /\ queue' = queue
          /\ disc'.added = {} /\ disc'.removed = {} /\ ~disc'.raised]_vars

\* A run got a non-200 status for the map of a site that has active files.
C24_Witness ==
  /\ disc.fresh /\ disc.status # 200
  /\ get_site_files(disc.site, disc.user) # {}

\* C25: when add_schema_map_to_site returns, every file that update_site_files
\* reported as added has got exactly one process_file message, with the user,
\* site, file and schema map of the run, and the second component of the
\* result is the number of those messages.
C25_OneJobPerAddedFile ==
  [][(disc'.fresh /\ ~disc'.raised) =>
       /\ \A f \in disc'.added :
            LET job == [type |-> "process_file", user |-> disc'.user,
                        site |-> disc'.site, file |-> f,
                        schema_map |-> disc'.schema_map]
            IN CopiesIn(job, queue') = CopiesIn(job, queue) + 1
       /\ disc'.result[2] = Cardinality(disc'.added)]_vars

\* The places of process_job in a process_file job whose File row exists, and
\* the step of the job each belongs to: 1 payload fetch, 2 update_file_ids up to
\* its commit, 3 ref-count reads, 4 Indexer calls, 5 last_processed and
\* clear_file_errors, 6 the ack or nack of worker_loop.
JobPcs == {"extract", "update", "commit", "count_add", "count_del", "index_add",
           "index_del", "post", "finish"}
Phase(pc) ==
  CASE pc = "extract" -> 1
    [] pc \in {"update", "commit"} -> 2
    [] pc \in {"count_add", "count_del"} -> 3
    [] pc \in {"index_add", "index_del"} -> 4
    [] pc = "post" -> 5
    [] pc = "finish" -> 6

C27_OnlyRemovalJobDeletesFile ==
  [][\A k \in FileKeys :
       (files[k] # NoRow /\ files'[k] = NoRow) =>
         \E w \in Workers :
            /\ wk[w].pc = "rm_file"
            /\ wk[w].msg.type = "process_removed_file"
            /\ wk[w].msg.file = k[1] /\ wk[w].msg.user = k[2]
            /\ wk[w].toDel # {} => wk[w].delCalls = 1]_vars

\* C28: scheduler_loop creates a discovery task for every due site of a tick,
\* the tasks run side by side, and the loop queries for due sites again only when
\* every task of the tick has completed; a discovery that raises leaves the
\* other tasks of the tick as they are and the loop goes on to its next query.
C28_TickWaitsForAll ==
  [][/\ sched.pc = "query" => Unfinished = {}
     /\ (sched.pc = "gather" /\ sched'.pc = "query") => Unfinished = {}
     /\ \A s, t \in SchedulerSites :
          (s # t /\ sched.task[s] = "running" /\ sched'.task[s] = "raised")
            => (sched'.task[t] = sched.task[t] /\ sched'.pc = "gather")
     /\ sched'.pc \in {"query", "gather"}]_vars

\* A discovery raised in an earlier tick, the loop went on to a later tick, and
\* in it the discoveries of all the due sites are running side by side.
C28_Witness ==
  /\ sched.failed
  /\ sched.ticks >= 1
  /\ \A s \in SchedulerSites : sched.task[s] = "running"

\* What the Store holds for user v: its files, ids and processing_errors rows,
\* its reference counts and its sites rows.
RowsOf(v) ==
  <<[f \in Files |-> files[<<f, v>>]],
    [k \in Files \X Ids |-> ids[<<k[1], v, k[2]>>]],
    {e \in errs : e[2] = v},
    [x \in Ids |-> ref_count(x, v)],
    [s \in Sites |-> sites[<<s, v>>]]>>

\* The step is a step of a job of user u.
StepFor(u) ==
  \E w \in Workers : wk[w].pc # "idle" /\ wk'[w] # wk[w] /\ wk[w].msg.user = u

\* C29: a step of a process_file or process_removed_file job of user U leaves
\* the files, ids and processing_errors rows of every other user V, V's
\* reference counts and V's sites rows as they were.
C29_OtherUsersRowsUnchanged ==
  [][\A u, v \in AllUsers : (u # v /\ StepFor(u)) => RowsOf(v)' = RowsOf(v)]_vars

\* C30: a step of a job of user U does not take out of the index the document
\* of an id that another user V references: whether X is indexed for V does not
\* depend on U's jobs.
C30_IndexIsolatedPerTenant ==
  [][\A u, v \in AllUsers : \A x \in Ids :
       (u # v /\ StepFor(u) /\ ref_count(x, v) > 0 /\ x \in index)
         => x \in index']_vars

\* The processing_errors rows of the pair (f, u).
ErrorsOf(f, u) == {e \in errs : e[1] = f /\ e[2] = u}

\* C31: the step in which a process_file job on (F, U) comes to return True
\* leaves no processing_errors row of (F, U), and leaves the rows of every other
\* pair as they were.
C31_SuccessClearsErrors ==
  [][\A w \in Workers :
       (/\ wk[w].pc \notin {"idle", "finish"}
        /\ wk[w].msg.type = "process_file"
        /\ wk'[w].pc = "finish" /\ wk'[w].result)
       => /\ ErrorsOf(wk[w].msg.file, wk[w].msg.user)' = {}
          /\ \A f \in Files, u \in AllUsers :
               <<f, u>> # <<wk[w].msg.file, wk[w].msg.user>>
                 => ErrorsOf(f, u)' = ErrorsOf(f, u)]_vars

RECURSIVE Concat(_)
Concat(ss) == IF ss = <<>> THEN <<>> ELSE Head(ss) \o Concat(Tail(ss))

BatchCallActive == call.fn \in {"batch_add", "batch_delete"}

\* C32: during a batch_add or batch_delete call every request holds between 1
\* and 100 documents, the requests sent so far are, put end to end, the
\* documents of the batch up to the loop's position in their order, a call
\* whose loop ended without an exception has sent the whole batch, and the key
\* of the document of an id is the same for the add and for the delete.
C32_ChunksOfAtMost100 ==
  BatchCallActive =>
    /\ \A r \in 1..Len(call.requests) :
         Len(call.requests[r]) >= 1 /\ Len(call.requests[r]) <= batch_size
    /\ Concat(call.requests)
         = SubSeq(call.documents, 1, Min(call.i, Len(call.documents)))
    /\ (~call.raised /\ call.i >= Len(call.documents))
         => Concat(call.requests) = call.documents
    /\ Len(call.documents) = Len(call.input)
    /\ \A j \in 1..Len(call.input) :
         /\ call.documents[j].id = prepare_document(call.input[j]).id
         /\ call.documents[j].id = delete_document(call.input[j]).id

\* A call of more than 200 documents, with an id that repeats, has sent three
\* requests and is at the end of its loop.
C32_Witness ==
  /\ BatchCallActive
  /\ Len(call.documents) > 2 * batch_size
  /\ Len(call.requests) = 3
  /\ call.i >= Len(call.documents)
  /\ call.input[1] = call.input[8]

\* The document uses the sitemap-0.9 namespace for all its url elements, or no
\* namespace.
UsesOneNamespace(doc) ==
  \E ns \in Namespaces : \A j \in 1..Len(doc.urls) : doc.urls[j].ns = ns

\* The url elements of q, with their place in the document, that have a
\* schema.org content type in any spelling and a loc with a text.
Retained(q) ==
  {j \in 1..Len(q) : /\ q[j].contentType \in {"structuredData/schema.org",
                                               "StructuredData/Schema.ORG"}
                      /\ q[j].loc # NoLoc
                      /\ q[j].loc.text # "None"}

ParseReturned == call.fn = "parse_schema_map_xml" /\ call.returned

\* C33: for a document in one namespace the list parse_schema_map_xml returns
\* has one pair per url element with a schema.org contentType and a non-empty
\* loc, in document order, each pair being the loc resolved against the base URL
\* (white space around it removed) and the contentType as written; text that is
\* not XML gives the empty list.
C33_PairsOfSchemaOrgUrls ==
  ParseReturned =>
    LET doc == call.xml_content
        q == doc.urls
        out == call.result
    IN /\ ~doc.wellformed => out = <<>>
       /\ (doc.wellformed /\ UsesOneNamespace(doc)) =>
            /\ Len(out) = Cardinality(Retained(q))
            /\ \A j \in Retained(q) :
                 LET place == Cardinality({k \in Retained(q) : k <= j})
                 IN /\ out[place][2] = q[j].contentType
                    /\ out[place][1] =
                         (IF q[j].loc.text = "abs" THEN <<"abs">>
                          ELSE IF q[j].loc.text \in {"rel", "padded_rel"}
                               THEN <<call.base_url, "rel">>
                          ELSE <<call.base_url>>)

\* A map in the sitemap namespace whose first url has no schema.org type and
\* whose second has it in capitals with a relative, padded loc.
C33_Witness ==
  /\ ParseReturned
  /\ call.xml_content.wellformed
  /\ Len(call.xml_content.urls) = 2
  /\ UsesOneNamespace(call.xml_content)
  /\ call.xml_content.urls[1].ns = "sitemap"
  /\ call.xml_content.urls[1].contentType = "text/html"
  /\ call.xml_content.urls[2].contentType = "StructuredData/Schema.ORG"
  /\ call.xml_content.urls[2].loc # NoLoc
  /\ call.xml_content.urls[2].loc.text = "padded_rel"
  /\ Len(call.result) = 1

\* C34: the objects (and with them the ids) extracted from a TSV line whose
\* JSON half is an object or a list are those the JSON branch extracts from the
\* same value.
C34_TsvLineAsJson ==
  (/\ call.fn = "extract_schema_data_from_url"
   /\ call.returned
   /\ call.content_type = "tsv")
  => call.objects = json_branch(call.value)

\* C35: the steps of a process_file job whose payload fetch failed leave the ids
\* rows of (file_url, user_id), number_of_items of the File row and the index as
\* they were.
C35_FetchFailureChangesNothing ==
  [][\A w \in Workers :
       (wk[w].fetchFailed /\ wk'[w] # wk[w])
       => LET f == wk[w].msg.file
              u == wk[w].msg.user
          IN /\ \A x \in Ids : ids'[<<f, u, x>>] = ids[<<f, u, x>>]
             /\ files'[<<f, u>>].number_of_items = files[<<f, u>>].number_of_items
             /\ index' = index]_vars

\* C36: an ids row becomes durable only in a step of the job that inserted it:
\* the rows a failed job left uncommitted on the worker's connection are not
\* committed by a later job of that worker.
C36_FailedWritesNeverDurable ==
  [][\A w \in Workers :
       (wk[w].pc # "idle" /\ wk'[w] # wk[w])
       => \A k \in IdKeys :
            ids'[k] > ids[k]
              => /\ k[1] = wk[w].msg.file
                 /\ k[2] = wk[w].msg.user
                 /\ k[3] \in wk[w].added
                 /\ ~wk[w].raised]_vars

----------------------------------------------------------------------------
(* C37 *)

\* C37: when a run of add_schema_map_to_site for a due site ends with nothing
\* pending (no message in the queue, no worker in a job), the site is no longer
\* due: its last_processed has been set.
C37_DueSiteStopsBeingDue ==
  [][\A k \in Sites \X Users :
       (/\ Due(k)
        /\ disc' # disc /\ disc'.fresh
        /\ disc'.site = k[1] /\ disc'.user = k[2] /\ disc'.status = 200
        /\ Quiescent')
       => ~Due(k)']_vars

----------------------------------------------------------------------------
(* C38 *)

\* The messages in the queue or taken by a worker that has not finished with them.
PendingOrInFlight(t, f, u) ==
  \/ \E m \in BagToSet(queue) : m.type = t /\ m.file = f /\ m.user = u
  \/ \E w \in Workers : /\ wk[w].pc # "idle"
                        /\ wk[w].msg.type = t /\ wk[w].msg.file = f /\ wk[w].msg.user = u

\* C38: between the runs of add_schema_map_to_site every inactive File row has a
\* process_removed_file message pending or in flight, and every active File row
\* that was never read has a process_file message pending or in flight.
C38_EveryRowHasItsJob ==
  \A k \in FileKeys :
     files[k] # NoRow =>
        /\ ~files[k].is_active => PendingOrInFlight("process_removed_file", k[1], k[2])
        /\ (files[k].is_active /\ ~files[k].read)
              => PendingOrInFlight("process_file", k[1], k[2])

----------------------------------------------------------------------------
(* C39 *)

\* C39: a start_scheduler call while a loop runs starts nothing, and no
\* process_site started by a stopped loop runs at the same time as a
\* process_site of the same site started by the loop that runs now.
C39_OneLoopOneDiscoveryPerSite ==
  /\ sched.outcome = "already_running" => sched.pc \in {"query", "gather"}
  /\ \A s \in SchedulerSites : ~(s \in sched.orphans /\ sched.task[s] = "running")

----------------------------------------------------------------------------
(* C40 *)

\* The messages in the queue directory, waiting or claimed.
Delivered == {qdir[k] : k \in {"job", "processing"} \X Names} \ {NoFile}

\* C40: a send_message that returns True puts its own message into the queue
\* directory as one more message: the job file it creates replaces no message
\* that is waiting there, and every message that was there before is still there.
C40_SendAddsOneMessage ==
  [][\A p \in Senders :
       (/\ snd[p].pc = "written" /\ snd'[p].pc = "idle"
        /\ qdir[<<"tmp", snd[p].name>>] # NoFile)
       => /\ qdir'[<<"job", snd[p].name>>] = snd[p].content
          /\ Delivered' = Delivered \cup {snd[p].content}
          /\ Cardinality(Delivered') = Cardinality(Delivered) + 1]_vars

====
